---- MODULE Spec2Model ----
(***************************************************************************)
(* Job/shot orchestration engine of G3_Video_Agent.                        *)
(*                                                                         *)
(* State: the manager's in-memory document (WorkflowManager.workflow),     *)
(* the persisted document (jobs/<id>/workflow.json), the artifact files of *)
(* every shot (stylized_frames/<sid>.png, videos/<sid>.mp4) and the merged *)
(* output (final_output.mp4).                                              *)
(*                                                                         *)
(* Operations: WorkflowManager.load / apply_agent_action / run_node /      *)
(* merge_videos, the command line's set-style / replace-entity / run       *)
(* (core/changes.py and core/runner.py on the persisted document), and the *)
(* deletion of an artifact file by something outside the engine.           *)
(*                                                                         *)
(* Not modelled: meta.updated_at (a wall-clock stamp nothing reads), the    *)
(* message text of merge_info, and the copy of merge_info that save()      *)
(* writes into workflow.json (load() replaces it before anything reads     *)
(* it).                                                                    *)
(***************************************************************************)
EXTENDS Integers, Sequences, FiniteSets, TLC

VARIABLES
    wf,      \* WorkflowManager.workflow, the in-memory document
    merge_info, \* WorkflowManager.workflow["merge_info"]
    disk,    \* the persisted workflow.json
    files,   \* files[s].stylized, files[s].video: the artifact files of shot s
    final,   \* TRUE iff final_output.mp4 exists
    run,     \* the run_node call that is followed step by step, if any
    io,      \* workflow.json, workflow.json.tmp and the processes in workflow_io
    jobs,    \* the job the manager points at, the job_id its document and
             \* every stored document carry, and the other job's directory
    steps,   \* how many more operations the behaviour is followed for
    last     \* the operation that ran last, its arguments and its outcome

vars == <<wf, merge_info, disk, files, final, run, io, jobs, steps, last>>

----------------------------------------------------------------------------
\* Bounds of the model.

\* The number of operations a behaviour of Spec is followed for.
MaxSteps == 4

\* The number of operations a behaviour of SpecEngine is followed for.
MaxEngineSteps == 3

\* The number of operations a behaviour of SpecEdit is followed for.
MaxEditSteps == 3

\* The number of operations a behaviour of SpecStore is followed for.
MaxStoreSteps == 3

\* The longest storyboard the decomposition step returns in SpecCreate.
MaxStoryboard == 3

\* The number of steps a behaviour of SpecRace is followed for.
MaxRaceSteps == 7

\* The number of steps a behaviour of SpecFile is followed for.
MaxFileSteps == 10

\* The number of steps a behaviour of SpecRun is followed for.
MaxRunSteps == 10

\* One more operation.
Tick == steps > 0 /\ steps' = steps - 1

----------------------------------------------------------------------------
\* Values.

Null == "null"

NOT_STARTED == "NOT_STARTED"
RUNNING == "RUNNING"
SUCCESS == "SUCCESS"
FAILED == "FAILED"

\* The shots of the job, by shot number: shot_01, shot_02.
Shots == {1, 2}

\* A shot_id argument that names no shot of the job, and the absent argument.
UnknownShot == 99
NoShot == 0

\* shot["assets"]["stylized_frame"] and shot["assets"]["video"] when set.
StylizedRel(s) == IF s = 1 THEN "stylized_frames/shot_01.png" ELSE "stylized_frames/shot_02.png"

VideoRel(s) == IF s = 1 THEN "videos/shot_01.mp4" ELSE "videos/shot_02.mp4"

\* Path.exists(): files[s].stylized and files[s].video are TRUE iff the file
\* is on disk (whatever wrote it: a generator call that succeeded, or one
\* that failed after it began to write).
Exists(f) == f

\* The failure detail a stage loop records in shot["errors"][stage].
ErrorText == "error"

\* A description that is None (JSON null).
None == <<"<None>">>

\* shot["entities"]: the entities a shot references.
ShotEntities(s) == IF s = 1 THEN {"entity_1"} ELSE {}

----------------------------------------------------------------------------
\* Text: a description is a sequence of characters.

\* str.lower()
LowerChar(c) == IF c = "D" THEN "d" ELSE IF c = "C" THEN "c" ELSE c

Lower(t) == [i \in 1..Len(t) |-> LowerChar(t[i])]

\* Whether pattern p occurs in t at position i, ignoring case.
MatchAt(t, p, i) ==
    /\ i + Len(p) - 1 <= Len(t)
    /\ \A k \in 1..Len(p) : LowerChar(t[i + k - 1]) = LowerChar(p[k])

\* old_subject in s["description"].lower()
Contains(t, p) == \E i \in 1..(Len(t) + 1) : MatchAt(t, p, i)

\* re.sub(old, new, t, flags=re.IGNORECASE) for a non-empty literal pattern:
\* every leftmost non-overlapping occurrence is replaced.
RECURSIVE SubFrom(_, _, _, _)
SubFrom(t, p, n, i) ==
    IF i > Len(t) THEN <<>>
    ELSE IF MatchAt(t, p, i) THEN n \o SubFrom(t, p, n, i + Len(p))
    ELSE <<t[i]>> \o SubFrom(t, p, n, i + 1)

ReSub(p, n, t) == SubFrom(t, p, n, 1)

----------------------------------------------------------------------------
\* Documents.

\* Both stages of a shot back to NOT_STARTED, both asset paths to None.
ResetShot(sh) ==
    [sh EXCEPT !.stylize = NOT_STARTED, !.video_generate = NOT_STARTED,
               !.video = Null, !.stylized_frame = Null]

\* A variant that removes nothing.
KeepArtifacts(f) == f

\* os.remove of both artifacts of a shot (each only if it exists).
RemoveArtifacts(f) == [stylized |-> FALSE, video |-> FALSE]

----------------------------------------------------------------------------
\* WorkflowManager.load: the Reconciler.

\* The stylize alignment of one shot: promotion only, there is no demotion.
AlignStylize(sh, f) ==
    IF Exists(f.stylized) /\ sh.stylize # SUCCESS
    THEN [sh EXCEPT !.stylize = SUCCESS, !.stylized_frame = StylizedRel(sh.shot_id)]
    ELSE sh

\* The video alignment of one shot: promotion and demotion.
AlignVideo(sh, f) ==
    IF Exists(f.video) /\ sh.video_generate # SUCCESS
    THEN [sh EXCEPT !.video_generate = SUCCESS, !.video = VideoRel(sh.shot_id)]
    ELSE IF ~Exists(f.video) /\ sh.video_generate = SUCCESS
    THEN [sh EXCEPT !.video_generate = NOT_STARTED, !.video = Null]
    ELSE sh

AlignShot(sh, f) == AlignVideo(AlignStylize(sh, f), f)

\* failed_count, pending_count and can_merge of the shots.
FailedCount(shots) ==
    Cardinality({s \in DOMAIN shots : shots[s].video_generate = FAILED})

\* A variant of pending_count that overlooks RUNNING shots.
PendingCountNoRunning(shots) ==
    Cardinality({s \in DOMAIN shots : shots[s].video_generate = NOT_STARTED})

PendingCount(shots) ==
    Cardinality({s \in DOMAIN shots : shots[s].video_generate \in {NOT_STARTED, RUNNING}})

MergeInfo(shots) ==
    [can_merge |-> FailedCount(shots) = 0 /\ PendingCount(shots) = 0
                   /\ Cardinality(DOMAIN shots) > 0,
     failed_count |-> FailedCount(shots),
     pending_count |-> PendingCount(shots)]

\* The document load() builds from the persisted one and the files.
Reconciled(doc, fl) ==
    [doc EXCEPT !.shots = [s \in DOMAIN doc.shots |-> AlignShot(doc.shots[s], fl[s])]]

\* The flag `updated` of load(): some status was changed.
Updated(doc, fl) ==
    \E s \in DOMAIN doc.shots : AlignShot(doc.shots[s], fl[s]) # doc.shots[s]

\* What load() leaves on disk: the corrected document if anything changed.
AfterLoadDisk(doc, fl) == IF Updated(doc, fl) THEN Reconciled(doc, fl) ELSE doc

----------------------------------------------------------------------------
\* core/changes.py

\* apply_global_style: the style is set and, with cascade, both stages of
\* every shot are set to NOT_STARTED (the asset paths are left as they are).
\* Returns the document and the number of affected shots.
ApplyGlobalStyle(doc, style, cascade) ==
    [wf |-> [doc EXCEPT
                !.style = style,
                !.shots = [s \in DOMAIN doc.shots |->
                             IF cascade
                             THEN [doc.shots[s] EXCEPT !.stylize = NOT_STARTED,
                                                       !.video_generate = NOT_STARTED]
                             ELSE doc.shots[s]]],
     affected |-> IF cascade THEN Cardinality(DOMAIN doc.shots) ELSE 0]

\* The shots replace_entity_reference resets: those that reference the entity.
Referencing(doc, entity) == {s \in DOMAIN doc.shots : entity \in ShotEntities(s)}

\* replace_entity_reference for an entity of the document.
ReplaceEntityReference(doc, entity, ref) ==
    [wf |-> [doc EXCEPT
                !.entity_ref = ref,
                !.shots = [s \in DOMAIN doc.shots |->
                             IF s \in Referencing(doc, entity)
                             THEN [doc.shots[s] EXCEPT !.stylize = NOT_STARTED,
                                                       !.video_generate = NOT_STARTED]
                             ELSE doc.shots[s]]],
     affected |-> Cardinality(Referencing(doc, entity))]

----------------------------------------------------------------------------
\* WorkflowManager.apply_agent_action, one operation of the batch.  Each
\* operator returns the document, the files, the number of affected shots, the
\* shots it reset and whether the operation raised (the mutations made before
\* the exception stay in memory, nothing is saved).

\* op == "set_global_style"
SetGlobalStyle(doc, fl, value) ==
    LET r == ApplyGlobalStyle(doc, value, TRUE)
    IN  [wf |-> IF r.affected > 0
                THEN [r.wf EXCEPT !.shots = [s \in DOMAIN doc.shots |-> ResetShot(r.wf.shots[s])]]
                ELSE r.wf,
         files |-> IF r.affected > 0
                   THEN [s \in DOMAIN fl |-> RemoveArtifacts(fl[s])]
                   ELSE fl,
         affected |-> r.affected,
         hit |-> IF r.affected > 0 THEN DOMAIN doc.shots ELSE {},
         raised |-> FALSE]

\* The shots the loop of global_subject_swap reaches: s["description"].lower()
\* raises on the first shot whose description is None.
NoneShots(doc) == {s \in DOMAIN doc.shots : doc.shots[s].description = None}

Reached(doc) == {s \in DOMAIN doc.shots : \A n \in NoneShots(doc) : s < n}

\* The shots global_subject_swap edits.
SwapMatches(doc, old) ==
    {s \in Reached(doc) : Contains(Lower(doc.shots[s].description), old)}

\* op == "global_subject_swap"
GlobalSubjectSwap(doc, fl, old_subject, new_subject) ==
    LET old == Lower(old_subject)
        new == Lower(new_subject)
        on == old # <<>> /\ new # <<>>
        hit == IF on THEN SwapMatches(doc, old) ELSE {}
    IN  [wf |-> [doc EXCEPT !.shots = [s \in DOMAIN doc.shots |->
                    IF s \in hit
                    THEN ResetShot([doc.shots[s] EXCEPT
                            !.description = ReSub(old, new, doc.shots[s].description)])
                    ELSE doc.shots[s]]],
         files |-> [s \in DOMAIN fl |-> IF s \in hit THEN RemoveArtifacts(fl[s]) ELSE fl[s]],
         affected |-> Cardinality(hit),
         hit |-> hit,
         raised |-> on /\ NoneShots(doc) # {}]

\* A variant of update_shot_params that leaves the artifact files in place.
UpdateShotParamsKeepFiles(doc, fl, sid, has_desc, description) ==
    IF sid \in DOMAIN doc.shots
    THEN [wf |-> [doc EXCEPT !.shots[sid] =
                    ResetShot([doc.shots[sid] EXCEPT
                        !.description = IF has_desc THEN description ELSE @])],
          files |-> fl,
          affected |-> 1,
          hit |-> {sid},
          raised |-> FALSE]
    ELSE [wf |-> doc, files |-> fl, affected |-> 0, hit |-> {}, raised |-> FALSE]

\* A variant of update_shot_params that resets every shot when the shot id
\* names none.
UpdateShotParamsAnyShot(doc, fl, sid, has_desc, description) ==
    [wf |-> [doc EXCEPT !.shots = [s \in DOMAIN doc.shots |->
                IF s = sid \/ sid \notin DOMAIN doc.shots
                THEN ResetShot([doc.shots[s] EXCEPT
                        !.description = IF has_desc THEN description ELSE @])
                ELSE doc.shots[s]]],
     files |-> [s \in DOMAIN fl |->
                IF s = sid \/ sid \notin DOMAIN doc.shots
                THEN RemoveArtifacts(fl[s]) ELSE fl[s]],
     affected |-> IF sid \in DOMAIN doc.shots THEN 1 ELSE 0,
     hit |-> IF sid \in DOMAIN doc.shots THEN {sid} ELSE {},
     raised |-> FALSE]

\* op == "update_shot_params"; has_desc is `"description" in act`.
UpdateShotParams(doc, fl, sid, has_desc, description) ==
    IF sid \in DOMAIN doc.shots
    THEN [wf |-> [doc EXCEPT !.shots[sid] =
                    ResetShot([doc.shots[sid] EXCEPT
                        !.description = IF has_desc THEN description ELSE @])],
          files |-> [fl EXCEPT ![sid] = RemoveArtifacts(fl[sid])],
          affected |-> 1,
          hit |-> {sid},
          raised |-> FALSE]
    ELSE [wf |-> doc, files |-> fl, affected |-> 0, hit |-> {}, raised |-> FALSE]

\* enhanced_parts of enhance_shot_description joined by " ".
Enhanced(desc, spatial_info, style_boost) ==
    desc \o (IF spatial_info # "" THEN <<" ", "[Spatial]">> ELSE <<>>)
         \o (IF style_boost # "" THEN <<" ", "[Style]">> ELSE <<>>)

\* op == "enhance_shot_description"; " ".join raises on a None description
\* before anything is changed.
EnhanceShotDescription(doc, fl, sid, spatial_info, style_boost) ==
    IF sid \in DOMAIN doc.shots /\ doc.shots[sid].description # None
    THEN [wf |-> [doc EXCEPT !.shots[sid] =
                    ResetShot([doc.shots[sid] EXCEPT
                        !.description = Enhanced(@, spatial_info, style_boost)])],
          files |-> [fl EXCEPT ![sid] = RemoveArtifacts(fl[sid])],
          affected |-> 1,
          hit |-> {sid},
          raised |-> FALSE]
    ELSE [wf |-> doc, files |-> fl, affected |-> 0, hit |-> {},
          raised |-> sid \in DOMAIN doc.shots]

----------------------------------------------------------------------------
\* core/runner.py

\* A variant of the selection that ignores the status of the shots.
SelectedAnyStatus(doc, stage, target) ==
    {s \in DOMAIN doc.shots : target = NoShot \/ s = target}

\* The shots a stage loop executes: the target shot whatever its status, or,
\* without a target, every shot whose status is NOT_STARTED or FAILED.
Selected(doc, stage, target) ==
    {s \in DOMAIN doc.shots :
        /\ target = NoShot \/ s = target
        /\ target # NoShot \/ doc.shots[s][stage] \in {NOT_STARTED, FAILED}}

\* One iteration of run_stylize.  mock_stylize_frame either copies the first
\* frame to stylized_frames/<sid>.png ("ok") or raises ("fail").
StylizeShot(sh, f, o) ==
    IF o = "ok"
    THEN [sh |-> [sh EXCEPT !.stylize = SUCCESS, !.stylized_frame = StylizedRel(sh.shot_id)],
          f |-> [f EXCEPT !.stylized = TRUE]]
    ELSE [sh |-> [sh EXCEPT !.stylize = FAILED, !.err_stylize = ErrorText], f |-> f]

\* An iteration of a stage loop that is cut short while the generator runs:
\* RUNNING has been saved, and the generator had written its file or not.
CutShot(sh, f, stage, kind, wrote) ==
    [sh |-> [sh EXCEPT ![stage] = RUNNING],
     f |-> [f EXCEPT ![kind] = @ \/ wrote]]

\* The loop of run_stylize, stopped during the generator call of shot `stop`
\* (never, when stop is NoShot).  The document is saved before and after
\* every generator call, so the result is also what the loop leaves on disk.
StylizeLoop(doc, fl, target, out, stop, wrote) ==
    LET sel == Selected(doc, "stylize", target)
        r == [s \in sel |->
                IF stop = NoShot \/ s < stop
                THEN StylizeShot(doc.shots[s], fl[s], out[s])
                ELSE IF s = stop
                THEN CutShot(doc.shots[s], fl[s], "stylize", "stylized", wrote)
                ELSE [sh |-> doc.shots[s], f |-> fl[s]]]
    IN  [wf |-> [doc EXCEPT !.shots =
                    [s \in DOMAIN doc.shots |-> IF s \in sel THEN r[s].sh ELSE doc.shots[s]]],
         files |-> [s \in DOMAIN fl |-> IF s \in sel THEN r[s].f ELSE fl[s]]]

\* run_stylize
RunStylize(doc, fl, target, out) == StylizeLoop(doc, fl, target, out, NoShot, FALSE)

\* What the video generator does on a shot.  veo_generate_video raises before
\* it writes anything when the shot has no stylized frame path or the frame
\* cannot be read; otherwise, as mock_generate_video, it succeeds ("ok"),
\* fails leaving no file ("fail") or fails after it began to write the output
\* file ("fail_file").
GeneratorOutcome(doc, sh, f, o) ==
    IF doc.video_model = "veo" /\ (sh.stylized_frame = Null \/ ~Exists(f.stylized))
    THEN "fail"
    ELSE o

\* A variant of the iteration that records SUCCESS without the asset path.
VideoShotNoPath(doc, sh, f, o) ==
    LET g == GeneratorOutcome(doc, sh, f, o)
    IN  IF g = "ok"
        THEN [sh |-> [sh EXCEPT !.video_generate = SUCCESS],
              f |-> [f EXCEPT !.video = TRUE]]
        ELSE [sh |-> [sh EXCEPT !.video_generate = FAILED, !.err_video = ErrorText],
              f |-> IF g = "fail_file" THEN [f EXCEPT !.video = TRUE] ELSE f]

\* One iteration of run_video_generate.
VideoShot(doc, sh, f, o) ==
    LET g == GeneratorOutcome(doc, sh, f, o)
    IN  IF g = "ok"
        THEN [sh |-> [sh EXCEPT !.video_generate = SUCCESS, !.video = VideoRel(sh.shot_id)],
              f |-> [f EXCEPT !.video = TRUE]]
        ELSE [sh |-> [sh EXCEPT !.video_generate = FAILED, !.err_video = ErrorText],
              f |-> IF g = "fail_file" THEN [f EXCEPT !.video = TRUE] ELSE f]

\* The loop of run_video_generate, stopped during the generator call of shot
\* `stop` (never, when stop is NoShot).
VideoLoop(doc, fl, target, out, stop, wrote) ==
    LET sel == Selected(doc, "video_generate", target)
        r == [s \in sel |->
                IF stop = NoShot \/ s < stop
                THEN VideoShot(doc, doc.shots[s], fl[s], out[s])
                ELSE IF s = stop
                THEN CutShot(doc.shots[s], fl[s], "video_generate", "video",
                             wrote /\ GeneratorOutcome(doc, doc.shots[s], fl[s], "ok") = "ok")
                ELSE [sh |-> doc.shots[s], f |-> fl[s]]]
    IN  [wf |-> [doc EXCEPT !.shots =
                    [s \in DOMAIN doc.shots |-> IF s \in sel THEN r[s].sh ELSE doc.shots[s]]],
         files |-> [s \in DOMAIN fl |-> IF s \in sel THEN r[s].f ELSE fl[s]]]

\* run_video_generate
RunVideoGenerate(doc, fl, target, out) == VideoLoop(doc, fl, target, out, NoShot, FALSE)

\* run_pipeline on the persisted document: the stylize loop over all
\* selected shots, then the video loop over the document read back.
RunPipeline(doc, fl, target, outS, outV) ==
    CHOOSE r \in {RunVideoGenerate(a.wf, a.files, target, outV) :
                    a \in {RunStylize(doc, fl, target, outS)}} : TRUE

\* The first shot a stage loop would execute (NoShot if there is none).
FirstSelected(doc, stage, target) ==
    IF Selected(doc, stage, target) = {} THEN NoShot
    ELSE CHOOSE s \in Selected(doc, stage, target) :
            \A x \in Selected(doc, stage, target) : s <= x

\* run_pipeline whose process is killed during the first generator call of
\* the stylize loop, or, the stylize loop done, of the video loop.
RunPipelineKilled(doc, fl, target, stage, outS, wrote) ==
    IF stage = "stylize"
    THEN StylizeLoop(doc, fl, target, outS, FirstSelected(doc, "stylize", target), wrote)
    ELSE CHOOSE r \in {VideoLoop(a.wf, a.files, target, [s \in DOMAIN doc.shots |-> "ok"],
                                  FirstSelected(a.wf, "video_generate", target), wrote) :
                           a \in {RunStylize(doc, fl, target, outS)}} : TRUE

----------------------------------------------------------------------------
\* WorkflowManager.run_node

\* target_shots
TargetShots(doc, shot_id) ==
    {s \in DOMAIN doc.shots : shot_id = NoShot \/ s = shot_id}

\* Dependency repair of one target shot: stylize is run when its status is
\* not SUCCESS, and the status is set to SUCCESS if the frame then exists.
RepairShot(sh, f, o) ==
    IF sh.stylize # SUCCESS
    THEN LET r == StylizeShot(sh, f, o)
         IN  IF Exists(r.f.stylized)
             THEN [sh |-> [r.sh EXCEPT !.stylize = SUCCESS,
                                       !.stylized_frame = StylizedRel(sh.shot_id)],
                   f |-> r.f]
             ELSE r
    ELSE [sh |-> sh, f |-> f]

\* The clear step of one target shot for a stage.
ClearShot(sh, f, node_type) ==
    IF node_type = "video_generate"
    THEN [sh |-> [sh EXCEPT !.video_generate = NOT_STARTED, !.video = Null],
          f |-> [f EXCEPT !.video = FALSE]]
    ELSE IF node_type = "stylize"
    THEN [sh |-> [sh EXCEPT !.stylize = NOT_STARTED, !.stylized_frame = Null],
          f |-> [f EXCEPT !.stylized = FALSE]]
    ELSE [sh |-> sh, f |-> f]

\* global_stages key of a node type.
StageKey(node_type) == IF node_type = "video_generate" THEN "gs_video_gen" ELSE "gs_stylize"

\* run_node up to its save(): attempts, dependency repair, the global
\* indicator, the clear step.
Prepared(doc, fl, node_type, shot_id, outS) ==
    LET targets == TargetShots(doc, shot_id)
        rep == [s \in DOMAIN doc.shots |->
                  IF node_type = "video_generate" /\ s \in targets
                  THEN RepairShot(doc.shots[s], fl[s], outS[s])
                  ELSE [sh |-> doc.shots[s], f |-> fl[s]]]
        clr == [s \in DOMAIN doc.shots |->
                  IF s \in targets
                  THEN ClearShot(rep[s].sh, rep[s].f, node_type)
                  ELSE rep[s]]
        doc1 == [doc EXCEPT !.attempts = @ + 1,
                            ![StageKey(node_type)] = RUNNING,
                            !.shots = [s \in DOMAIN doc.shots |-> clr[s].sh]]
        fl1 == [s \in DOMAIN fl |-> IF s \in DOMAIN doc.shots THEN clr[s].f ELSE fl[s]]
    IN  [wf |-> doc1, files |-> fl1]

\* The stage loop of run_node on the prepared document p.
StageLoop(p, node_type, shot_id, outS, outV) ==
    IF node_type = "stylize" THEN RunStylize(p.wf, p.files, shot_id, outS)
    ELSE IF node_type = "video_generate" THEN RunVideoGenerate(p.wf, p.files, shot_id, outV)
    ELSE p

\* run_node up to its final load().
RunNodeBody(doc, fl, node_type, shot_id, outS, outV) ==
    CHOOSE r \in {StageLoop(p, node_type, shot_id, outS, outV) :
                    p \in {Prepared(doc, fl, node_type, shot_id, outS)}} : TRUE

----------------------------------------------------------------------------
\* WorkflowManager.merge_videos

\* success_shots
SuccessShots(doc) == {s \in DOMAIN doc.shots : doc.shots[s].video_generate = SUCCESS}

\* The set sorted by shot_id: "shot_01" < "shot_02" as strings and as numbers.
RECURSIVE SortedSeq(_)
SortedSeq(S) ==
    IF S = {} THEN <<>>
    ELSE LET m == CHOOSE x \in S : \A y \in S : x <= y
         IN  <<m>> \o SortedSeq(S \ {m})

\* Whether a shot's video path is written to concat_list.txt.
Listed(doc, s) == doc.shots[s].video # Null

\* The shots whose video path is written to concat_list.txt, in order.
ConcatList(doc) == SortedSeq({s \in SuccessShots(doc) : Listed(doc, s)})

\* Whether the muxer can succeed: it has an input and every input exists.
MuxerCanSucceed(doc, fl) ==
    /\ ConcatList(doc) # <<>>
    /\ \A i \in 1..Len(ConcatList(doc)) : Exists(fl[ConcatList(doc)[i]].video)

----------------------------------------------------------------------------
\* Inputs.

Styles == {"Noir"}

\* old_subject and new_subject of global_subject_swap.
OldSubjects == {<<"D">>, <<>>}

NewSubjects == {<<"C">>, <<>>}

\* The description of update_shot_params: absent from the action, a text, or
\* None (the request of /api/shot/update with no description).
NoDescription == <<"<absent>">>

DescriptionArgs == {NoDescription, <<"D">>, None}

SpatialInfos == {"left of frame"}

StyleBoosts == {""}

ShotArgs == Shots \cup {UnknownShot}

NodeTypes == {"stylize", "video_generate", "audio"}

StylizeOutcomes == {"ok", "fail"}

VideoOutcomes == {"ok", "fail", "fail_file"}

\* The generator calls of one run that do not succeed.
Failures(out) == Cardinality({s \in DOMAIN out : out[s] # "ok"})

\* The outcomes of the generator calls of one run: at most one call fails.
RunOutcomes(outS, outV) == Failures(outS) + Failures(outV) <= 1

EntityArgs == {"entity_1", "entity_2"}

RefArgs == {"ref_1"}

\* The shots for which run_node with these arguments can call the generator
\* of a stage.
Called(doc, node_type, shot_id, stage) ==
    IF node_type = "video_generate" \/ node_type = stage
    THEN TargetShots(doc, shot_id)
    ELSE {}

\* The record of the operation that ran last: its name, "ok" or "raised",
\* the affected count it computed, the shots it reset, its text argument and
\* the list merge_videos handed to the muxer; its shot_id argument is set by
\* the operations that have one.
Last(op, res, affected, hit, text, list) ==
    [op |-> op, res |-> res, affected |-> affected, hit |-> hit,
     text |-> text, list |-> list, shot |-> NoShot]

----------------------------------------------------------------------------
\* The job as initialize_from_file creates it, loaded by the manager.

\* The content of a file: missing, empty (opened for writing, nothing written
\* yet), partial (some of the text written, or the text of two writers mixed),
\* or the whole JSON text of version v of the document (0: the document the
\* job was created with; w: the document writer w saves).
Missing == [st |-> "missing", v |-> 0]
Empty == [st |-> "empty", v |-> 0]
Partial == [st |-> "partial", v |-> 0]
Whole(v) == [st |-> "whole", v |-> v]

\* read_text raised (an OSError); the {} load_workflow returns.
Unreadable == [st |-> "unreadable", v |-> 0]
EmptyResult == [st |-> "{}", v |-> 0]

\* The processes that call save_workflow on the job.
Writers == {1, 2}

\* workflow.json and workflow.json.tmp with nobody reading or writing them.
Closed ==
    [file |-> Whole(0), temp |-> Missing,
     w |-> [x \in Writers |-> [pc |-> "idle", at |-> "none", clean |-> TRUE, fb |-> FALSE]],
     r |-> [pc |-> "idle", attempt |-> 0, seen |-> <<>>, result |-> EmptyResult]]

\* No edit has arrived during the run_node call that is followed.
NoEdit == [shot |-> NoShot, text |-> <<>>, inflight |-> FALSE]

\* The job directories under jobs/: the one the other variables describe and
\* another one; NoJob is the job_id of a manager constructed without one.
JobA == "job_a"

JobB == "job_b"

JobIds == {JobA, JobB}

NoJob == "none"

\* No run_node call is being followed.
Idle ==
    [pc |-> "idle", node_type |-> "", shot_id |-> NoShot, queue |-> <<>>,
     cur |-> NoShot, calls |-> <<>>, failed |-> {}, had |-> {}, cleared |-> {},
     polled |-> <<>>, unstarted |-> FALSE, edited |-> NoEdit]

InitShot(s, description) ==
    [shot_id |-> s,
     description |-> description,
     stylize |-> NOT_STARTED,
     video_generate |-> NOT_STARTED,
     stylized_frame |-> Null,
     video |-> Null,
     err_stylize |-> Null,
     err_video |-> Null]

InitDescription(s) == IF s = 1 THEN <<"D">> ELSE <<"c">>

InitDoc ==
    [style |-> "Cinematic Realistic",
     video_model |-> "veo",
     entity_ref |-> "ref_0",
     gs_stylize |-> NOT_STARTED,
     gs_video_gen |-> NOT_STARTED,
     gs_merge |-> NOT_STARTED,
     attempts |-> 0,
     shots |-> [s \in Shots |-> InitShot(s, InitDescription(s))]]

\* The job initialize_from_file creates from an empty storyboard.
EmptyDoc == [InitDoc EXCEPT !.shots = <<>>]

\* No artifact file has been written.
NoFiles == [s \in Shots |-> [stylized |-> FALSE, video |-> FALSE]]

\* The other job as initialize_from_file creates it: its own shots.
OtherJob ==
    [wf |-> [InitDoc EXCEPT !.shots = [s \in Shots |-> InitShot(s, <<"K">>)]],
     files |-> NoFiles]

\* The manager constructed on job_a, which it has loaded.
OneJob ==
    [job_id |-> JobA, loaded |-> JobA, stored |-> [j \in JobIds |-> j],
     other |-> OtherJob]

\* The jobs a behaviour can start from: the job as created, the job with no
\* shots, and the job after one run of the pipeline over all its shots.
Jobs ==
    {[wf |-> InitDoc, files |-> NoFiles], [wf |-> EmptyDoc, files |-> NoFiles]}
    \cup {RunPipeline(InitDoc, NoFiles, NoShot, outS, outV) :
             <<outS, outV>> \in {o \in [Shots -> StylizeOutcomes] \X [Shots -> VideoOutcomes] :
                                  RunOutcomes(o[1], o[2])}}

\* The manager constructed on a job: its __init__ calls load().
Started(job) ==
    /\ disk = AfterLoadDisk(job.wf, job.files)
    /\ files = job.files
    /\ final = FALSE
    /\ wf = Reconciled(job.wf, job.files)
    /\ merge_info = MergeInfo(wf.shots)
    /\ run = Idle
    /\ io = Closed
    /\ jobs = OneJob
    /\ last = Last("init", "ok", 0, {}, <<>>, <<>>)

Created ==
    /\ disk = InitDoc
    /\ files = [s \in Shots |-> [stylized |-> FALSE, video |-> FALSE]]
    /\ final = FALSE
    /\ wf = Reconciled(disk, files)
    /\ merge_info = MergeInfo(wf.shots)
    /\ run = Idle
    /\ io = Closed
    /\ jobs = OneJob
    /\ last = Last("init", "ok", 0, {}, <<>>, <<>>)

----------------------------------------------------------------------------
\* The manager's operations.

\* WorkflowManager.load
Load ==
    /\ Tick
    /\ UNCHANGED <<run, io, jobs>>
    /\ wf' = Reconciled(disk, files)
    /\ merge_info' = MergeInfo(wf'.shots)
    /\ disk' = AfterLoadDisk(disk, files)
    /\ last' = Last("load", "ok", 0, {}, <<>>, <<>>)
    /\ UNCHANGED <<files, final>>

\* The end of apply_agent_action: the result r of the operation becomes the
\* state, and the document is saved if a shot was affected and nothing raised.
Applied(op, r, text, sid) ==
    /\ wf' = r.wf
    /\ files' = r.files
    /\ disk' = IF r.affected > 0 /\ ~r.raised THEN r.wf ELSE disk
    /\ last' = [Last(op, IF r.raised THEN "raised" ELSE "ok", r.affected, r.hit, text, <<>>)
                EXCEPT !.shot = sid]
    /\ UNCHANGED <<merge_info, final>>

ApplySetGlobalStyle ==
    /\ Tick
    /\ UNCHANGED <<run, io, jobs>>
    /\ \E value \in Styles :
           Applied("set_global_style", SetGlobalStyle(wf, files, value), <<value>>, NoShot)

ApplyGlobalSubjectSwap ==
    /\ Tick
    /\ UNCHANGED <<run, io, jobs>>
    /\ \E old \in OldSubjects, new \in NewSubjects :
           Applied("global_subject_swap", GlobalSubjectSwap(wf, files, old, new), Lower(old),
                   NoShot)

ApplyUpdateShotParams ==
    /\ Tick
    /\ UNCHANGED <<run, io, jobs>>
    /\ \E sid \in ShotArgs, d \in DescriptionArgs :
           Applied("update_shot_params",
                   UpdateShotParams(wf, files, sid, d # NoDescription, d), d, sid)

\* An action whose op is none of the four: no branch is taken, nothing is
\* saved and {"status": "success", "affected_shots": 0} is returned.
ApplyUnknownOp ==
    /\ Tick
    /\ UNCHANGED <<run, io, jobs>>
    /\ last' = Last("unknown_op", "ok", 0, {}, <<>>, <<>>)
    /\ UNCHANGED <<wf, merge_info, disk, files, final>>

ApplyEnhanceShotDescription ==
    /\ Tick
    /\ UNCHANGED <<run, io, jobs>>
    /\ \E sid \in ShotArgs, sp \in SpatialInfos, sb \in StyleBoosts :
           Applied("enhance_shot_description",
                   EnhanceShotDescription(wf, files, sid, sp, sb), <<>>, sid)

\* WorkflowManager.run_node, with the outcome of every generator call.
RunNode ==
    /\ Tick
    /\ UNCHANGED <<run, io, jobs>>
    /\ \E node_type \in NodeTypes, shot_id \in ShotArgs \cup {NoShot} :
       \E outS \in [Called(wf, node_type, shot_id, "stylize") -> StylizeOutcomes],
          outV \in [Called(wf, node_type, shot_id, "video_generate") -> VideoOutcomes] :
           /\ RunOutcomes(outS, outV)
           /\ node_type \in {"stylize", "video_generate"} \/ shot_id = NoShot
           /\ \E r \in {RunNodeBody(wf, files, node_type, shot_id, outS, outV)} :
                  /\ wf' = Reconciled(r.wf, r.files)
                  /\ merge_info' = MergeInfo(wf'.shots)
                  /\ disk' = AfterLoadDisk(r.wf, r.files)
                  /\ files' = r.files
           /\ last' = [Last("run_node", "ok", 0, TargetShots(wf, shot_id), <<node_type>>, <<>>)
                       EXCEPT !.shot = shot_id]
           /\ UNCHANGED <<final>>

\* WorkflowManager.merge_videos: raises when no shot is SUCCESS or when the
\* muxer fails.
MergeVideos ==
    /\ Tick
    /\ UNCHANGED <<run, io, jobs>>
    /\ \/ /\ SuccessShots(wf) = {}
          /\ last' = Last("merge_videos", "raised", 0, {}, <<>>, <<>>)
          /\ UNCHANGED <<wf, merge_info, disk, files, final>>
       \/ /\ SuccessShots(wf) # {}
          /\ last' = Last("merge_videos", "raised", 0, {}, <<>>, ConcatList(wf))
          /\ UNCHANGED <<wf, merge_info, disk, files, final>>
       \/ /\ SuccessShots(wf) # {}
          /\ MuxerCanSucceed(wf, files)
          /\ final' = TRUE
          /\ wf' = [wf EXCEPT !.gs_merge = SUCCESS]
          /\ disk' = wf'
          /\ last' = Last("merge_videos", "ok", 0, {}, <<>>, ConcatList(wf))
          /\ UNCHANGED <<merge_info, files>>

----------------------------------------------------------------------------
\* The command line (workflow_cli.py), on the persisted document.

\* set-style [--no-cascade]: the artifact files stay where they are.
CmdSetStyle ==
    /\ Tick
    /\ UNCHANGED <<run, io, jobs>>
    /\ \E style \in Styles, cascade \in BOOLEAN :
           /\ disk' = ApplyGlobalStyle(disk, style, cascade).wf
           /\ last' = Last("cmd_set_style", "ok",
                           ApplyGlobalStyle(disk, style, cascade).affected,
                           IF cascade THEN Shots ELSE {}, <<style>>, <<>>)
           /\ UNCHANGED <<wf, merge_info, files, final>>

\* replace-entity: KeyError for an entity the document does not have.
CmdReplaceEntity ==
    /\ Tick
    /\ UNCHANGED <<run, io, jobs>>
    /\ \E entity \in EntityArgs, ref \in RefArgs :
           \/ /\ entity # "entity_1"
              /\ last' = Last("cmd_replace_entity", "raised", 0, {}, <<entity>>, <<>>)
              /\ UNCHANGED <<wf, merge_info, disk, files, final>>
           \/ /\ entity = "entity_1"
              /\ disk' = ReplaceEntityReference(disk, entity, ref).wf
              /\ last' = Last("cmd_replace_entity", "ok",
                              ReplaceEntityReference(disk, entity, ref).affected,
                              Referencing(disk, entity), <<entity>>, <<>>)
              /\ UNCHANGED <<wf, merge_info, files, final>>

\* run [--shot]: run_pipeline
CmdRun ==
    /\ Tick
    /\ UNCHANGED <<run, io, jobs>>
    /\ \E target \in Shots \cup {NoShot} :
       \E outS \in [TargetShots(disk, target) -> StylizeOutcomes],
          outV \in [TargetShots(disk, target) -> VideoOutcomes] :
           \E r \in {RunPipeline(disk, files, target, outS, outV)} :
               /\ RunOutcomes(outS, outV)
               /\ disk' = r.wf
               /\ files' = r.files
               /\ last' = Last("cmd_run", "ok", 0, {}, <<>>, <<>>)
               /\ UNCHANGED <<wf, merge_info, final>>

\* run [--shot] whose process is killed while a generator call is in flight.
CmdRunKilled ==
    /\ Tick
    /\ UNCHANGED <<run, io, jobs>>
    /\ \E target \in Shots \cup {NoShot}, stage \in {"stylize", "video_generate"},
          wrote \in BOOLEAN :
       \E outS \in [IF stage = "stylize" THEN {} ELSE TargetShots(disk, target)
                    -> {"ok"}] :
           \E r \in {RunPipelineKilled(disk, files, target, stage, outS, wrote)} :
               /\ \E s \in Shots : r.wf.shots[s][stage] = RUNNING
               /\ disk' = r.wf
               /\ files' = r.files
               /\ last' = Last("cmd_run_killed", "ok", 0, {}, <<>>, <<>>)
               /\ UNCHANGED <<wf, merge_info, final>>

----------------------------------------------------------------------------
\* Outside the engine: an artifact file is deleted.

DeleteArtifact ==
    /\ Tick
    /\ UNCHANGED <<run, io, jobs>>
    /\ \E s \in Shots, kind \in {"stylized", "video"} :
           /\ Exists(files[s][kind])
           /\ files' = [files EXCEPT ![s][kind] = FALSE]
           /\ last' = Last("delete", "ok", 0, {}, <<>>, <<>>)
           /\ UNCHANGED <<wf, merge_info, disk, final>>

----------------------------------------------------------------------------
\* The persisted document under the command line, deletions from outside and
\* the manager's load().
Next ==
    \/ Load
    \/ CmdSetStyle
    \/ CmdReplaceEntity
    \/ CmdRun
    \/ CmdRunKilled
    \/ DeleteArtifact

Init == Created /\ steps = MaxSteps

Spec == Init /\ [][Next]_vars

\* The manager's operations on a job that a killed run and deletions from
\* outside may have left in any state.
NextEngine ==
    \/ Load
    \/ ApplySetGlobalStyle
    \/ ApplyGlobalSubjectSwap
    \/ ApplyUpdateShotParams
    \/ ApplyEnhanceShotDescription
    \/ RunNode
    \/ MergeVideos
    \/ CmdRunKilled
    \/ DeleteArtifact

InitEngine == Created /\ steps = MaxEngineSteps

SpecEngine == InitEngine /\ [][NextEngine]_vars

----------------------------------------------------------------------------
\* The document store: json.dumps / json.loads of the document, save() and
\* load() of the manager, with another process writing workflow.json.

\* json.dumps of a value that may be None: None is written as null.
JsonOpt(v, none) == IF v = none THEN [null |-> TRUE] ELSE [null |-> FALSE, val |-> v]

\* A variant of the parser that reads null as the empty string.
PyOptNullAsEmpty(j, none) == IF j.null THEN "" ELSE j.val

\* json.loads of such a value: null is read as None.
PyOpt(j, none) == IF j.null THEN none ELSE j.val

\* json.dumps of a shot: the nested objects status, assets and errors.
DumpShot(sh) ==
    [shot_id |-> sh.shot_id,
     description |-> JsonOpt(sh.description, None),
     status |-> [stylize |-> sh.stylize, video_generate |-> sh.video_generate],
     assets |-> [stylized_frame |-> JsonOpt(sh.stylized_frame, Null),
                 video |-> JsonOpt(sh.video, Null)],
     errors |-> [stylize |-> JsonOpt(sh.err_stylize, Null),
                 video_generate |-> JsonOpt(sh.err_video, Null)]]

\* json.loads of a shot.
ParseShot(j) ==
    [shot_id |-> j.shot_id,
     description |-> PyOpt(j.description, None),
     stylize |-> j.status.stylize,
     video_generate |-> j.status.video_generate,
     stylized_frame |-> PyOpt(j.assets.stylized_frame, Null),
     video |-> PyOpt(j.assets.video, Null),
     err_stylize |-> PyOpt(j.errors.stylize, Null),
     err_video |-> PyOpt(j.errors.video_generate, Null)]

\* save_workflow: json.dumps(wf), the content of workflow.json.
Dumps(doc) ==
    [global |-> [style_prompt |-> JsonOpt(doc.style, Null),
                 video_model |-> JsonOpt(doc.video_model, Null),
                 entity_ref |-> JsonOpt(doc.entity_ref, Null)],
     global_stages |-> [stylize |-> doc.gs_stylize, video_gen |-> doc.gs_video_gen,
                        merge |-> doc.gs_merge],
     meta |-> [attempts |-> doc.attempts],
     shots |-> [s \in DOMAIN doc.shots |-> DumpShot(doc.shots[s])]]

\* load_workflow: json.loads(content).
Loads(j) ==
    [style |-> PyOpt(j.global.style_prompt, Null),
     video_model |-> PyOpt(j.global.video_model, Null),
     entity_ref |-> PyOpt(j.global.entity_ref, Null),
     gs_stylize |-> j.global_stages.stylize,
     gs_video_gen |-> j.global_stages.video_gen,
     gs_merge |-> j.global_stages.merge,
     attempts |-> j.meta.attempts,
     shots |-> [s \in DOMAIN j.shots |-> ParseShot(j.shots[s])]]

\* The document load() builds when load_workflow returns {}: the default
\* global_stages, no shots, no global settings.
UnreadableDoc ==
    [style |-> Null, video_model |-> Null, entity_ref |-> Null,
     gs_stylize |-> NOT_STARTED, gs_video_gen |-> NOT_STARTED, gs_merge |-> NOT_STARTED,
     attempts |-> 0, shots |-> <<>>]

\* WorkflowManager.save
Save ==
    /\ Tick
    /\ UNCHANGED <<run, io, jobs>>
    /\ disk' = Loads(Dumps(wf))
    /\ last' = Last("save", "ok", 0, {}, <<>>, <<>>)
    /\ UNCHANGED <<wf, merge_info, files, final>>

\* save() followed by load(): what was written is read back and aligned
\* with the files.  The ghost record keeps the shots whose saved record
\* differed from the one on disk, and whether load() wrote.
SaveLoad ==
    /\ Tick
    /\ UNCHANGED <<run, io, jobs>>
    /\ \E saved \in {Loads(Dumps(wf))} :
          /\ wf' = Reconciled(saved, files)
          /\ merge_info' = MergeInfo(wf'.shots)
          /\ disk' = AfterLoadDisk(saved, files)
          /\ last' = Last("save_load", IF Updated(saved, files) THEN "written" ELSE "clean",
                          0,
                          {s \in DOMAIN wf.shots :
                              s \notin DOMAIN disk.shots \/ disk.shots[s] # wf.shots[s]},
                          <<>>, <<>>)
    /\ UNCHANGED <<files, final>>

\* load() when load_workflow has exhausted its retries and returned {}:
\* nothing is corrected, so nothing is written.
LoadUnreadable ==
    /\ Tick
    /\ UNCHANGED <<run, io, jobs>>
    /\ wf' = UnreadableDoc
    /\ merge_info' = MergeInfo(wf'.shots)
    /\ last' = Last("load", "empty", 0, {}, <<>>, <<>>)
    /\ UNCHANGED <<disk, files, final>>

NextStore ==
    \/ Load
    \/ LoadUnreadable
    \/ Save
    \/ SaveLoad
    \/ CmdSetStyle
    \/ ApplySetGlobalStyle
    \/ RunNode
    \/ MergeVideos
    \/ DeleteArtifact

InitStore == steps = MaxStoreSteps /\ \E job \in Jobs : Started(job)

SpecStore == InitStore /\ [][NextStore]_vars

----------------------------------------------------------------------------
\* WorkflowManager.initialize_from_file: the storyboard of the decomposition
\* step, semantic merging, and the shots of the created job.  A storyboard is
\* the sequence of its entries' shot_number values.

\* An entry without shot_number.
Absent == 0

\* The storyboards the model returns: shot_number is whatever it wrote.
Storyboards == UNION {[1..n -> {Absent, 1, 2, 11, 100}] : n \in 0..MaxStoryboard}

\* The merge groups the model answers with (lists of 0-based indices): none,
\* groups of adjacent entries, and a group that names an entry out of range.
MergeGroups == {<<>>, <<<<0, 1>>>>, <<<<1, 2>>>>, <<<<0, 1, 2>>>>, <<<<0, 5>>>>}

\* The while loop of _merge_semantic_shots from index i (0-based) with the
\* next new number num: the entries kept, renumbered, or raised when a group
\* names an entry the storyboard does not have.
RECURSIVE MergeLoop(_, _, _, _)
MergeLoop(shots, groups, i, num) ==
    IF i >= Len(shots) THEN [raised |-> FALSE, out |-> <<>>]
    ELSE LET starting == {g \in 1..Len(groups) : Len(groups[g]) > 1 /\ groups[g][1] = i}
             merged == UNION {{groups[g][k] : k \in 2..Len(groups[g])} :
                                g \in {h \in 1..Len(groups) : Len(groups[h]) > 1}}
         IN  IF starting # {}
             THEN LET group == groups[CHOOSE g \in starting : \A h \in starting : g <= h]
                      last_idx == group[Len(group)]
                  IN  IF last_idx >= Len(shots)
                      THEN [raised |-> TRUE, out |-> <<>>]
                      ELSE LET rest == MergeLoop(shots, groups, last_idx + 1, num + 1)
                           IN  [raised |-> rest.raised, out |-> <<num>> \o rest.out]
             ELSE IF i \in merged
             THEN MergeLoop(shots, groups, i + 1, num)
             ELSE LET rest == MergeLoop(shots, groups, i + 1, num + 1)
                  IN  [raised |-> rest.raised, out |-> <<num>> \o rest.out]

\* _merge_semantic_shots: the storyboard as it is when it has at most one
\* entry, when there is nothing to merge, or when merging raised.
MergeSemanticShots(shots, groups) ==
    IF Len(shots) <= 1 \/ groups = <<>> \/ MergeLoop(shots, groups, 0, 1).raised
    THEN shots
    ELSE MergeLoop(shots, groups, 0, 1).out

\* int(s.get("shot_number", 1))
ShotNumber(entry) == IF entry = Absent THEN 1 ELSE entry

\* The decimal digits of a number.
RECURSIVE Digits(_)
Digits(n) == IF n < 10 THEN <<n>> ELSE Append(Digits(n \div 10), n % 10)

\* f"{shot_num:02d}": at least two digits, zero-padded.  Every shot_id is
\* "shot_" followed by these digits.
Format02d(n) == IF n < 10 THEN <<0, n>> ELSE Digits(n)

\* a <= b for strings of digits, as Python compares str: character by
\* character, a proper prefix being smaller.
RECURSIVE StrLeq(_, _)
StrLeq(a, b) ==
    IF a = <<>> THEN TRUE
    ELSE IF b = <<>> THEN FALSE
    ELSE IF Head(a) # Head(b) THEN Head(a) < Head(b)
    ELSE StrLeq(Tail(a), Tail(b))

\* list.sort(key=lambda x: x["shot_id"]) on shot numbers: a stable sort by
\* the shot_id string.
RECURSIVE SortByShotId(_)
SortByShotId(ids) ==
    IF ids = <<>> THEN <<>>
    ELSE LET front == SortByShotId(SubSeq(ids, 1, Len(ids) - 1))
             x == ids[Len(ids)]
             keep == {k \in 0..Len(front) :
                        \A i \in 1..k : StrLeq(Format02d(front[i]), Format02d(x))}
             at == CHOOSE k \in keep : \A m \in keep : m <= k
         IN  SubSeq(front, 1, at) \o <<x>> \o SubSeq(front, at + 1, Len(front))

\* The document of the created job: shot_id is shot_<shot_number>.
CreatedDoc(storyboard) ==
    [InitDoc EXCEPT !.shots = [i \in 1..Len(storyboard) |->
                                 InitShot(ShotNumber(storyboard[i]), <<"D">>)]]

\* initialize_from_file
InitializeFromFile ==
    /\ Tick
    /\ last.op = "init"
    /\ \E raw \in Storyboards, groups \in MergeGroups :
         \E storyboard \in {MergeSemanticShots(raw, groups)} :
            /\ wf' = CreatedDoc(storyboard)
            /\ disk' = wf'
            /\ files' = [i \in 1..Len(storyboard) |-> [stylized |-> FALSE, video |-> FALSE]]
            /\ last' = Last("initialize_from_file", "ok", Len(storyboard), {},
                            <<raw, groups>>, storyboard)
    /\ UNCHANGED <<merge_info, final, run, io, jobs>>

NextCreate == InitializeFromFile

InitCreate == Created /\ steps = 1

SpecCreate == InitCreate /\ [][NextCreate]_vars

----------------------------------------------------------------------------
\* core/workflow_io.py followed step by step: two processes in save_workflow
\* and one in load_workflow, on the same job directory.

\* max_retries of load_workflow.
MaxRetries == 3

\* A variant of the retry test that always retries.
RetryAlways(attempt) == TRUE

\* attempt < max_retries - 1
Retry(attempt) == attempt < MaxRetries - 1

\* One attempt of load_workflow that observed obs: the call returns {} for a
\* missing file, the parsed document for a whole one, and otherwise retries
\* or, on the last attempt, returns {}.
Attempt(obs, attempt) ==
    IF obs.st = "missing" THEN [done |-> TRUE, result |-> EmptyResult]
    ELSE IF obs.st = "whole" THEN [done |-> TRUE, result |-> obs]
    ELSE IF Retry(attempt) THEN [done |-> FALSE, result |-> EmptyResult]
    ELSE [done |-> TRUE, result |-> EmptyResult]

\* The other writers' handles after writer x has written to, or truncated,
\* the file named `at`: what they write later is mixed with x's text.
Disturbed(x, at) ==
    [y \in Writers |->
        IF y # x /\ io.w[y].at = at /\ io.w[y].pc \in {"flush", "close"}
        THEN [io.w[y] EXCEPT !.clean = FALSE]
        ELSE io.w[y]]

FileFrame == UNCHANGED <<wf, merge_info, disk, files, final, run, jobs, last>>

\* temp_path.write_text opens workflow.json.tmp: created or truncated.
OpenTemp(x) ==
    /\ Tick
    /\ io.w[x].pc = "idle"
    /\ io' = [io EXCEPT !.temp = Empty,
                        !.w = [Disturbed(x, "temp") EXCEPT
                                 ![x] = [pc |-> "flush", at |-> "temp",
                                         clean |-> TRUE, fb |-> FALSE]]]
    /\ FileFrame

\* write_text has written part of the text to the file its handle is on:
\* workflow.json.tmp, or workflow.json if the file was renamed meanwhile.
Flush(x) ==
    /\ Tick
    /\ io.w[x].pc = "flush"
    /\ io' = [io EXCEPT
                 !.temp = IF io.w[x].at = "temp" THEN Partial ELSE @,
                 !.file = IF io.w[x].at = "file" THEN Partial ELSE @,
                 !.w = [Disturbed(x, io.w[x].at) EXCEPT ![x].pc = "close"]]
    /\ FileFrame

\* write_text has written the rest and closed the file.
Close(x) ==
    /\ Tick
    /\ io.w[x].pc = "close"
    /\ LET text == IF io.w[x].clean THEN Whole(x) ELSE Partial
       IN  io' = [io EXCEPT
                    !.temp = IF io.w[x].at = "temp" THEN text ELSE @,
                    !.file = IF io.w[x].at = "file" THEN text ELSE @,
                    !.w = [Disturbed(x, io.w[x].at) EXCEPT
                             ![x].pc = IF io.w[x].fb THEN "done" ELSE "move"]]
    /\ FileFrame

\* shutil.move(temp_path, wf_path): the rename; a handle another writer has
\* on the renamed file is now a handle on workflow.json.
Move(x) ==
    /\ Tick
    /\ io.w[x].pc = "move"
    /\ io.temp.st # "missing"
    /\ io' = [io EXCEPT
                 !.file = io.temp,
                 !.temp = Missing,
                 !.w = [y \in Writers |->
                          IF y = x THEN [io.w[y] EXCEPT !.pc = "done"]
                          ELSE IF io.w[y].at = "temp" THEN [io.w[y] EXCEPT !.at = "file"]
                          ELSE IF io.w[y].at = "file" THEN [io.w[y] EXCEPT !.at = "gone"]
                          ELSE io.w[y]]]
    /\ FileFrame

\* shutil.move raised because workflow.json.tmp is gone: the fallback opens
\* workflow.json itself for writing, which truncates it.
Fallback(x) ==
    /\ Tick
    /\ io.w[x].pc = "move"
    /\ io.temp.st = "missing"
    /\ io' = [io EXCEPT !.file = Empty,
                        !.w = [Disturbed(x, "file") EXCEPT
                                 ![x] = [pc |-> "flush", at |-> "file",
                                         clean |-> TRUE, fb |-> TRUE]]]
    /\ FileFrame

\* load_workflow is called.
ReadBegin ==
    /\ Tick
    /\ io.r.pc \in {"idle", "done"}
    /\ io' = [io EXCEPT !.r = [pc |-> "reading", attempt |-> 0, seen |-> <<>>,
                                result |-> EmptyResult]]
    /\ FileFrame

\* One attempt of load_workflow: exists(), read_text (which may raise),
\* the emptiness test and json.loads.
ReadAttempt ==
    /\ Tick
    /\ io.r.pc = "reading"
    /\ \E fault \in BOOLEAN :
         LET obs == IF fault /\ io.file.st # "missing" THEN Unreadable ELSE io.file
             a == Attempt(obs, io.r.attempt)
         IN  io' = [io EXCEPT !.r = [pc |-> IF a.done THEN "done" ELSE "reading",
                                     attempt |-> io.r.attempt + 1,
                                     seen |-> Append(io.r.seen, obs),
                                     result |-> a.result]]
    /\ FileFrame

NextFile ==
    \/ \E x \in Writers : OpenTemp(x)
    \/ \E x \in Writers : Flush(x)
    \/ \E x \in Writers : Close(x)
    \/ \E x \in Writers : Move(x)
    \/ \E x \in Writers : Fallback(x)
    \/ ReadBegin
    \/ ReadAttempt

InitFile ==
    /\ steps = MaxFileSteps
    /\ Started([wf |-> InitDoc, files |-> NoFiles])

SpecFile == InitFile /\ [][NextFile]_vars

----------------------------------------------------------------------------
\* WorkflowManager.run_node followed step by step, each step ending where
\* the call writes workflow.json or an artifact file, with status polls
\* (load() by another caller) in between.

\* The artifact file of a stage.
Kind(stage) == IF stage = "stylize" THEN "stylized" ELSE "video"

\* A variant of the dependency check that never asks for a repair.
NeedsRepairNever(doc, s) == FALSE

\* s["status"].get("stylize") != "SUCCESS"
NeedsRepair(doc, s) == doc.shots[s].stylize # SUCCESS

\* A variant of the stage loops that stops at the first failure.
RemainingStopOnFailure(queue, o) == IF o = "ok" THEN Tail(queue) ELSE <<>>

\* The shots a stage loop still visits after the generator call of the first
\* one has ended with outcome o: the exception is caught, the loop goes on.
Remaining(queue, o) == Tail(queue)

\* The arguments of the run_node calls that are followed.
RunStages == {"stylize", "video_generate"}

RunTargets == Shots \cup {NoShot}

\* A step of the call that is followed.
Step(op) ==
    [Last(op, "ok", 0, {}, <<run.node_type>>, <<>>) EXCEPT !.shot = run.shot_id]

\* attempts, target_shots and the shots the dependency repair will run.
RunBegin ==
    /\ Tick
    /\ UNCHANGED <<io, jobs>>
    /\ run.pc = "idle"
    /\ \E node_type \in RunStages, shot_id \in RunTargets :
         LET targets == TargetShots(wf, shot_id)
             repair == IF node_type = "video_generate"
                       THEN SortedSeq({s \in targets : NeedsRepair(wf, s)})
                       ELSE <<>>
         IN  /\ wf' = [wf EXCEPT !.attempts = @ + 1]
             /\ run' = [pc |-> IF repair # <<>> THEN "repair" ELSE "clear",
                        node_type |-> node_type, shot_id |-> shot_id,
                        queue |-> repair, cur |-> NoShot, calls |-> <<>>,
                        failed |-> {}, cleared |-> {}, polled |-> <<>>,
                        edited |-> NoEdit,
                        unstarted |-> /\ DOMAIN wf.shots # {}
                                      /\ \A s \in DOMAIN wf.shots :
                                            wf.shots[s].video_generate = NOT_STARTED,
                        had |-> {s \in targets : wf.shots[s].stylize = SUCCESS}]
             /\ last' = [Last("run_begin", "ok", 0, targets, <<node_type>>, <<>>)
                         EXCEPT !.shot = shot_id]
    /\ UNCHANGED <<merge_info, disk, files, final>>

\* The dependency repair of one shot: run_stylize(target_shot) saves its
\* outcome, then the status is set to SUCCESS in memory if the frame exists.
RunRepair ==
    /\ Tick
    /\ UNCHANGED <<io, jobs>>
    /\ run.pc = "repair"
    /\ \E o \in StylizeOutcomes :
         LET s == Head(run.queue)
             ran == StylizeShot(wf.shots[s], files[s], o)
             rep == RepairShot(wf.shots[s], files[s], o)
         IN  /\ disk' = [wf EXCEPT !.shots[s] = ran.sh]
             /\ wf' = [wf EXCEPT !.shots[s] = rep.sh]
             /\ files' = [files EXCEPT ![s] = rep.f]
             /\ run' = [run EXCEPT
                           !.queue = Tail(@),
                           !.pc = IF Tail(run.queue) = <<>> THEN "clear" ELSE "repair",
                           !.calls = Append(@, <<"stylize", s>>),
                           !.failed = IF o = "ok" THEN @ ELSE @ \cup {<<"stylize", s>>}]
    /\ last' = Step("run_repair")
    /\ UNCHANGED <<merge_info, final>>

\* The global indicator and the clear step: the artifact of every target shot
\* is removed and its status and asset path are reset in memory.
RunClear ==
    /\ Tick
    /\ UNCHANGED <<io, jobs>>
    /\ run.pc = "clear"
    /\ LET targets == TargetShots(wf, run.shot_id)
       IN  /\ wf' = [wf EXCEPT
                        ![StageKey(run.node_type)] = RUNNING,
                        !.shots = [s \in DOMAIN wf.shots |->
                                     IF s \in targets
                                     THEN ClearShot(wf.shots[s], files[s], run.node_type).sh
                                     ELSE wf.shots[s]]]
           /\ files' = [s \in DOMAIN files |->
                          IF s \in targets
                          THEN ClearShot(wf.shots[s], files[s], run.node_type).f
                          ELSE files[s]]
           /\ run' = [run EXCEPT !.pc = "save", !.cleared = targets]
    /\ last' = Step("run_clear")
    /\ UNCHANGED <<merge_info, disk, final>>

\* self.save() after the clear step; the stage loop is entered.
RunSave ==
    /\ Tick
    /\ UNCHANGED <<io, jobs>>
    /\ run.pc = "save"
    /\ disk' = wf
    /\ LET todo == SortedSeq(Selected(wf, run.node_type, run.shot_id))
       IN  run' = [run EXCEPT !.queue = todo,
                              !.pc = IF todo = <<>> THEN "load" ELSE "loop"]
    /\ last' = Step("run_save")
    /\ UNCHANGED <<wf, merge_info, files, final>>

\* An iteration of the stage loop up to the generator call: RUNNING is saved.
RunGenStart ==
    /\ Tick
    /\ UNCHANGED <<io, jobs>>
    /\ run.pc = "loop"
    /\ LET s == Head(run.queue)
       IN  /\ wf' = [wf EXCEPT !.shots[s][run.node_type] = RUNNING]
           /\ disk' = wf'
           /\ run' = [run EXCEPT !.pc = "gen", !.cur = s,
                                  !.calls = Append(@, <<run.node_type, s>>)]
    /\ last' = Step("run_gen_start")
    /\ UNCHANGED <<merge_info, files, final>>

\* A variant of the save after a generator call that writes nothing.
SaveWorkflowSkipped(doc, old) == old

\* save_workflow(job_dir, wf) after a generator call: workflow.json, which
\* held old, holds the document.
SaveWorkflow(doc, old) == doc

\* The generator call ends: its outcome is set and saved.
RunGenEnd ==
    /\ Tick
    /\ UNCHANGED <<io, jobs>>
    /\ run.pc = "gen"
    /\ \E o \in VideoOutcomes :
         LET s == run.cur
             r == IF run.node_type = "stylize"
                  THEN StylizeShot(wf.shots[s], files[s], o)
                  ELSE VideoShot(wf, wf.shots[s], files[s], o)
             ok == IF run.node_type = "stylize" THEN o = "ok"
                   ELSE GeneratorOutcome(wf, wf.shots[s], files[s], o) = "ok"
         IN  /\ run.node_type = "stylize" => o \in StylizeOutcomes
             /\ wf' = [wf EXCEPT !.shots[s] = r.sh]
             /\ disk' = SaveWorkflow(wf', disk)
             /\ files' = [files EXCEPT ![s] = r.f]
             /\ run' = [run EXCEPT
                           !.queue = Remaining(run.queue, IF ok THEN "ok" ELSE "fail"),
                           !.cur = NoShot,
                           !.pc = IF Remaining(run.queue, IF ok THEN "ok" ELSE "fail") = <<>>
                                  THEN "load" ELSE "loop",
                           !.failed = IF ok THEN @ ELSE @ \cup {<<run.node_type, s>>}]
    /\ last' = Step("run_gen_end")
    /\ UNCHANGED <<merge_info, final>>

\* The load() that ends run_node.
RunEnd ==
    /\ Tick
    /\ UNCHANGED <<io, jobs>>
    /\ run.pc = "load"
    /\ wf' = Reconciled(disk, files)
    /\ merge_info' = MergeInfo(wf'.shots)
    /\ disk' = AfterLoadDisk(disk, files)
    /\ run' = [run EXCEPT !.pc = "idle", !.queue = <<>>]
    /\ last' = Step("run_end")
    /\ UNCHANGED <<files, final>>

\* A status poll while the call is in progress: another caller's load() of
\* workflow.json against the files, which saves what it corrects.
Poll ==
    /\ Tick
    /\ UNCHANGED <<io, jobs>>
    /\ run.pc # "idle"
    /\ run' = [run EXCEPT !.polled = Reconciled(disk, files).shots]
    /\ disk' = AfterLoadDisk(disk, files)
    /\ last' = Step("poll")
    /\ UNCHANGED <<wf, merge_info, files, final>>

NextRun ==
    \/ RunBegin
    \/ RunRepair
    \/ RunClear
    \/ RunSave
    \/ RunGenStart
    \/ RunGenEnd
    \/ RunEnd
    \/ Poll

InitRun == steps = MaxRunSteps /\ \E job \in Jobs : Started(job)

SpecRun == InitRun /\ [][NextRun]_vars

----------------------------------------------------------------------------
\* An edit that arrives while run_node is in its stage loop: the handler of
\* /api/shot/update runs on the event loop, run_node in a worker thread.

\* The description the edit supplies.
EditText == <<"E">>

\* manager.load() followed by apply_agent_action(update_shot_params): the
\* document is read from workflow.json, edited and saved.  The stage loop
\* goes on with the document object it was called with (wf).
EditDuringRun ==
    /\ Tick
    /\ UNCHANGED <<io, jobs>>
    /\ run.pc \in {"loop", "gen"}
    /\ run.edited = NoEdit
    /\ \E sid \in DOMAIN disk.shots :
         \E r \in {UpdateShotParams(Reconciled(disk, files), files, sid, TRUE, EditText)} :
            /\ disk' = r.wf
            /\ files' = r.files
            /\ merge_info' = MergeInfo(Reconciled(disk, files).shots)
            /\ run' = [run EXCEPT !.edited =
                          [shot |-> sid, text |-> EditText,
                           inflight |-> run.pc = "gen" /\ run.cur = sid]]
            /\ last' = [Last("update_shot_params", "ok", r.affected, r.hit, EditText, <<>>)
                        EXCEPT !.shot = sid]
    /\ UNCHANGED <<wf, final>>

NextRace ==
    \/ RunBegin
    \/ RunRepair
    \/ RunClear
    \/ RunSave
    \/ RunGenStart
    \/ RunGenEnd
    \/ RunEnd
    \/ EditDuringRun

InitRace == steps = MaxRaceSteps /\ \E job \in Jobs : Started(job)

SpecRace == InitRace /\ [][NextRace]_vars

\* The edits of apply_agent_action on the jobs a behaviour can start from.
NextEdit ==
    \/ Load
    \/ ApplySetGlobalStyle
    \/ ApplyGlobalSubjectSwap
    \/ ApplyUpdateShotParams
    \/ ApplyEnhanceShotDescription
    \/ ApplyUnknownOp

InitEdit == steps = MaxEditSteps /\ \E job \in Jobs : Started(job)

SpecEdit == InitEdit /\ [][NextEdit]_vars

----------------------------------------------------------------------------
\* runner.run_pipeline followed step by step (the run command of the CLI and
\* the smoke test), after the commands that precede it.  The iterations of
\* the two stage loops are those of run_node: RunGenStart and RunGenEnd.

MaxPipeSteps == 12

\* wf = load_workflow(job_dir); run_stylize(job_dir, wf, target_shot) begins.
PipeBegin ==
    /\ Tick
    /\ UNCHANGED <<io, jobs>>
    /\ run.pc = "idle"
    /\ \E target \in RunTargets :
         LET todo == SortedSeq(Selected(disk, "stylize", target))
         IN  /\ wf' = disk
             /\ run' = [Idle EXCEPT !.pc = IF todo = <<>> THEN "load" ELSE "loop",
                                    !.node_type = "stylize",
                                    !.shot_id = target,
                                    !.queue = todo]
             /\ last' = [Last("pipe_begin", "ok", 0, {}, <<"stylize">>, <<>>)
                         EXCEPT !.shot = target]
    /\ UNCHANGED <<merge_info, disk, files, final>>

\* run_stylize has returned: wf = load_workflow(job_dir) and
\* run_video_generate(job_dir, wf, target_shot) begins.
PipePass ==
    /\ Tick
    /\ UNCHANGED <<io, jobs>>
    /\ run.pc = "load"
    /\ run.node_type = "stylize"
    /\ LET todo == SortedSeq(Selected(disk, "video_generate", run.shot_id))
       IN  /\ wf' = disk
           /\ run' = [run EXCEPT !.pc = IF todo = <<>> THEN "load" ELSE "loop",
                                  !.node_type = "video_generate",
                                  !.queue = todo]
    /\ last' = Step("pipe_pass")
    /\ UNCHANGED <<merge_info, disk, files, final>>

\* run_video_generate has returned: run_pipeline returns.
PipeEnd ==
    /\ Tick
    /\ UNCHANGED <<io, jobs>>
    /\ run.pc = "load"
    /\ run.node_type = "video_generate"
    /\ run' = [run EXCEPT !.pc = "idle"]
    /\ last' = Step("run_pipeline")
    /\ UNCHANGED <<wf, merge_info, disk, files, final>>

\* A command of the CLI that ran before run_pipeline was started.
PipeBefore ==
    /\ run.pc = "idle"
    /\ last.op = "init"
    /\ \/ CmdSetStyle
       \/ CmdReplaceEntity
       \/ disk.shots # <<>> /\ CmdRunKilled

NextPipe ==
    \/ PipeBefore
    \/ PipeBegin
    \/ RunGenStart
    \/ RunGenEnd
    \/ PipePass
    \/ PipeEnd

InitPipe == steps = MaxPipeSteps /\ \E job \in Jobs : Started(job)

SpecPipe == InitPipe /\ [][NextPipe]_vars

----------------------------------------------------------------------------
\* app.py: the handlers of GET /api/workflow and POST /api/run/{node_type}
\* on the manager every request shares, with two jobs under jobs/.

MaxJobSteps == 3

\* The job_id query parameter of a request (NoJob: not given).
JobArgs == JobIds \cup {NoJob}

\* jobs/<job>: its workflow.json and its artifact files.
JobDir(job) == IF job = JobA THEN [wf |-> disk, files |-> files] ELSE jobs.other

\* sorted(existing_jobs, reverse=True)[0]: "job_b" sorts after "job_a".
LatestJob == JobB

\* The handlers' result: manager.job_id becomes job, the manager's document
\* becomes doc with the job_id field owner, and jobs/<job> holds d.
Served(job, doc, owner, d) ==
    /\ wf' = doc
    /\ merge_info' = MergeInfo(doc.shots)
    /\ disk' = IF job = JobA THEN d.wf ELSE disk
    /\ files' = IF job = JobA THEN d.files ELSE files
    /\ jobs' = [jobs EXCEPT !.job_id = job,
                            !.loaded = owner,
                            !.stored[job] = owner,
                            !.other = IF job = JobB THEN d ELSE @]

\* get_workflow: the manager is pointed at the job and loads it.
GetWorkflow ==
    /\ Tick
    /\ UNCHANGED <<final, run, io>>
    /\ \E job_id \in JobArgs :
         LET target == IF job_id # NoJob THEN job_id
                       ELSE IF jobs.job_id # NoJob THEN jobs.job_id
                       ELSE LatestJob
             d == JobDir(target)
         IN  /\ Served(target, Reconciled(d.wf, d.files), jobs.stored[target],
                       [wf |-> AfterLoadDisk(d.wf, d.files), files |-> d.files])
             /\ last' = Last("get_workflow", "ok", 0, {}, <<job_id>>, <<>>)

\* run_task: the manager is pointed at job_id if one is given; an unknown
\* node type is answered with 400; otherwise run_node is queued, 'started'
\* is answered, and run_node runs on the manager as the request left it.  A
\* manager that has loaded nothing raises in run_node before it writes.
RunTask ==
    /\ Tick
    /\ UNCHANGED <<final, run, io>>
    /\ \E node_type \in NodeTypes, shot_id \in RunTargets, job_id \in JobArgs :
         LET target == IF job_id # NoJob THEN job_id ELSE jobs.job_id
         IN  \/ /\ node_type \notin {"stylize", "video_generate"}
                /\ jobs' = [jobs EXCEPT !.job_id = target]
                /\ last' = [Last("run_task", "400", 0, {}, <<node_type, job_id>>, <<>>)
                            EXCEPT !.shot = shot_id]
                /\ UNCHANGED <<wf, merge_info, disk, files>>
             \/ /\ node_type \in {"stylize", "video_generate"}
                /\ target = NoJob \/ jobs.loaded = NoJob
                /\ jobs' = [jobs EXCEPT !.job_id = target]
                /\ last' = [Last("run_task", "started", 0, {}, <<node_type, job_id>>, <<>>)
                            EXCEPT !.shot = shot_id]
                /\ UNCHANGED <<wf, merge_info, disk, files>>
             \/ /\ node_type \in {"stylize", "video_generate"}
                /\ target # NoJob
                /\ jobs.loaded # NoJob
                /\ \E outS \in [Called(wf, node_type, shot_id, "stylize") -> StylizeOutcomes],
                      outV \in [Called(wf, node_type, shot_id, "video_generate")
                                -> VideoOutcomes] :
                     /\ RunOutcomes(outS, outV)
                     /\ \E r \in {RunNodeBody(wf, JobDir(target).files, node_type,
                                              shot_id, outS, outV)} :
                            Served(target, Reconciled(r.wf, r.files), jobs.loaded,
                                   [wf |-> AfterLoadDisk(r.wf, r.files), files |-> r.files])
                /\ last' = [Last("run_task", "started", 0, TargetShots(wf, shot_id),
                                 <<node_type, job_id>>, <<>>)
                            EXCEPT !.shot = shot_id]

NextJobs ==
    \/ GetWorkflow
    \/ RunTask

\* The server has started: manager = WorkflowManager() has no job and an
\* empty document; job_a and job_b are under jobs/.
InitJobs ==
    /\ steps = MaxJobSteps
    /\ \E job \in Jobs :
         /\ disk = job.wf
         /\ files = job.files
    /\ final = FALSE
    /\ wf = EmptyDoc
    /\ merge_info = MergeInfo(wf.shots)
    /\ run = Idle
    /\ io = Closed
    /\ jobs = [OneJob EXCEPT !.job_id = NoJob, !.loaded = NoJob]
    /\ last = Last("init", "ok", 0, {}, <<>>, <<>>)

SpecJobs == InitJobs /\ [][NextJobs]_vars

----------------------------------------------------------------------------
\* Properties.

\* C1: after load() returns, every stage of every shot that is SUCCESS has a
\* non-null asset path and its artifact file exists.
C1_SuccessIsBacked ==
    last.op = "load" =>
        \A s \in Shots :
            /\ wf.shots[s].stylize = SUCCESS
                  => wf.shots[s].stylized_frame # Null /\ Exists(files[s].stylized)
            /\ wf.shots[s].video_generate = SUCCESS
                  => wf.shots[s].video # Null /\ Exists(files[s].video)

\* C2: after an invalidation operation has reset a shot, both artifact files
\* of that shot are gone, and a load() that follows at once reports neither
\* stage of that shot as SUCCESS.
C2_InvalidationRemovesArtifacts ==
    [][LET invalidations == {"set_global_style", "global_subject_swap",
                              "update_shot_params", "enhance_shot_description",
                              "cmd_set_style", "cmd_replace_entity"}
       IN  /\ last'.op \in invalidations
                => \A s \in last'.hit :
                      ~Exists(files'[s].stylized) /\ ~Exists(files'[s].video)
           /\ last.op \in invalidations /\ last'.op = "load"
                => \A s \in last.hit : /\ wf'.shots[s].stylize # SUCCESS
                                       /\ wf'.shots[s].video_generate # SUCCESS]_vars

\* C3: whenever video_generate of a shot becomes SUCCESS in the manager's
\* document, stylize of that shot is SUCCESS at that moment.
C3_VideoSuccessNeedsStylize ==
    [][\A s \in Shots :
          wf.shots[s].video_generate # SUCCESS /\ wf'.shots[s].video_generate = SUCCESS
              => wf'.shots[s].stylize = SUCCESS]_vars

\* C4: merge_videos() on a job with a shot whose video_generate is not SUCCESS
\* raises, writes no final output and leaves global_stages.merge unchanged.
C4_MergeNeedsEveryShot ==
    [][last'.op = "merge_videos" /\ (\E s \in Shots : wf.shots[s].video_generate # SUCCESS)
          => /\ last'.res = "raised"
             /\ final' = final
             /\ wf'.gs_merge = wf.gs_merge]_vars

\* C5: load() on a shot whose stage is SUCCESS and whose artifact file is
\* missing sets the status to NOT_STARTED and the asset path to null, in
\* memory and in the persisted document.
C5_LoadDemotesMissing ==
    [][last'.op = "load" =>
          \A s \in Shots :
             /\ disk.shots[s].stylize = SUCCESS /\ ~Exists(files[s].stylized)
                  => /\ wf'.shots[s].stylize = NOT_STARTED
                     /\ wf'.shots[s].stylized_frame = Null
                     /\ disk'.shots[s] = wf'.shots[s]
             /\ disk.shots[s].video_generate = SUCCESS /\ ~Exists(files[s].video)
                  => /\ wf'.shots[s].video_generate = NOT_STARTED
                     /\ wf'.shots[s].video = Null
                     /\ disk'.shots[s] = wf'.shots[s]]_vars

\* C6: load() leaves every FAILED and NOT_STARTED status as it is, and every
\* RUNNING status whose artifact is absent; it promotes to SUCCESS only a
\* status that is RUNNING with its artifact present.
C6_LoadFrame ==
    [][last'.op = "load" =>
          \A s \in Shots :
             /\ disk.shots[s].stylize \in {FAILED, NOT_STARTED}
                  \/ (disk.shots[s].stylize = RUNNING /\ ~Exists(files[s].stylized))
                  => wf'.shots[s].stylize = disk.shots[s].stylize
             /\ disk.shots[s].video_generate \in {FAILED, NOT_STARTED}
                  \/ (disk.shots[s].video_generate = RUNNING /\ ~Exists(files[s].video))
                  => wf'.shots[s].video_generate = disk.shots[s].video_generate]_vars

\* C7: after load() returns, every stage of every shot that is not SUCCESS has
\* a null asset path.
C7_NotSuccessHasNoPath ==
    last.op = "load" =>
        \A s \in Shots :
            /\ wf.shots[s].stylize # SUCCESS => wf.shots[s].stylized_frame = Null
            /\ wf.shots[s].video_generate # SUCCESS => wf.shots[s].video = Null

C9_SetGlobalStyleResetsAll ==
    last.op = "set_global_style" =>
        /\ wf.style = last.text[1]
        /\ \A s \in Shots :
              /\ wf.shots[s].stylize = NOT_STARTED
              /\ wf.shots[s].video_generate = NOT_STARTED
              /\ wf.shots[s].stylized_frame = Null
              /\ wf.shots[s].video = Null
              /\ ~Exists(files[s].stylized)
              /\ ~Exists(files[s].video)

\* set_global_style on a job whose videos had been generated and merged.
C9_Witness ==
    /\ last.op = "set_global_style"
    /\ last.affected = Cardinality(Shots)
    /\ final
    /\ wf.gs_merge = SUCCESS
    /\ wf.style = "Noir"
    /\ \A s \in Shots : wf.shots[s].video_generate = NOT_STARTED /\ ~Exists(files[s].video)

\* C10: global_subject_swap(old, new) resets and removes the artifacts of
\* exactly the shots whose description contains old, ignoring case; every
\* other shot and its files are unchanged, and the affected count is the
\* number of matching shots.
C10_SwapAffectsExactlyMatches ==
    [][last'.op = "global_subject_swap" /\ last'.text # <<>> =>
          LET matching == {s \in Shots : Contains(wf.shots[s].description, last'.text)}
          IN  /\ last'.affected = Cardinality(matching)
              /\ \A s \in matching :
                    /\ wf'.shots[s].stylize = NOT_STARTED
                    /\ wf'.shots[s].video_generate = NOT_STARTED
                    /\ ~Exists(files'[s].stylized)
                    /\ ~Exists(files'[s].video)
              /\ \A s \in Shots \ matching :
                    wf'.shots[s] = wf.shots[s] /\ files'[s] = files[s]]_vars

\* C11: update_shot_params for a shot of the job sets its description to the
\* supplied one, resets both stages to NOT_STARTED, removes both artifacts,
\* reports one affected shot and leaves every other shot unchanged; a load()
\* that follows still reports the shot's video_generate as NOT_STARTED.
C11_UpdateResetsTheShot ==
    [][/\ last'.op = "update_shot_params" /\ last'.shot \in DOMAIN wf.shots
            => /\ last'.text # NoDescription
                    => wf'.shots[last'.shot].description = last'.text
               /\ wf'.shots[last'.shot].stylize = NOT_STARTED
               /\ wf'.shots[last'.shot].video_generate = NOT_STARTED
               /\ ~Exists(files'[last'.shot].stylized)
               /\ ~Exists(files'[last'.shot].video)
               /\ last'.affected = 1
               /\ \A o \in DOMAIN wf.shots \ {last'.shot} :
                     wf'.shots[o] = wf.shots[o] /\ files'[o] = files[o]
       /\ last.op = "update_shot_params" /\ last.shot \in DOMAIN wf.shots
          /\ last'.op = "load"
            => wf'.shots[last.shot].video_generate = NOT_STARTED]_vars

\* update_shot_params has given shot 2, whose stages had succeeded, a new
\* description; shot 1 is still SUCCESS with its video.
C11_Witness ==
    /\ last.op = "update_shot_params"
    /\ last.shot = 2
    /\ 2 \in DOMAIN wf.shots
    /\ wf.shots[2].description = <<"D">>
    /\ wf.shots[2].err_stylize = Null /\ wf.shots[2].err_video = Null
    /\ wf.shots[1].video_generate = SUCCESS
    /\ Exists(files[1].video)

\* C12: update_shot_params naming a shot id that is not in the job reports
\* zero affected shots and changes neither the in-memory document, nor the
\* persisted document, nor any artifact file.
C12_UpdateUnknownShotIsNoOp ==
    [][last'.op = "update_shot_params" /\ last'.shot \notin DOMAIN wf.shots
          => /\ last'.affected = 0
             /\ wf' = wf
             /\ disk' = disk
             /\ files' = files]_vars

\* update_shot_params with an unknown shot id on a job that has artifacts.
C12_Witness ==
    /\ last.op = "update_shot_params"
    /\ last.shot = UnknownShot
    /\ \E s \in DOMAIN wf.shots :
          wf.shots[s].video_generate = SUCCESS /\ Exists(files[s].video)

\* C13: an operation whose op name is not a known edit operation is rejected
\* with an error outcome, and nothing is mutated.
C13_UnknownOpRejected ==
    [][last'.op = "unknown_op"
          => /\ last'.res = "raised"
             /\ wf' = wf
             /\ disk' = disk
             /\ files' = files]_vars

\* C14: apply_agent_action persists the document exactly when the affected
\* count is greater than zero, and when it returns every mutation it made in
\* memory (style, shots) is in the persisted document.
C14_MutationsArePersisted ==
    [][/\ last'.op \in {"set_global_style", "global_subject_swap", "update_shot_params",
                        "enhance_shot_description", "unknown_op"}
       /\ last'.res = "ok"
          => /\ last'.affected > 0 => disk' = wf'
             /\ last'.affected = 0 => disk' = disk
             /\ wf'.style # wf.style => disk'.style = wf'.style
             /\ \A s \in DOMAIN wf.shots :
                   wf'.shots[s] # wf.shots[s] => disk'.shots[s] = wf'.shots[s]]_vars

\* C15: in run_node('video_generate') the video generator is invoked for a
\* shot only if the shot's stylize status was SUCCESS when the call began or
\* the stylize generator was invoked, and had returned, for that shot earlier
\* in the same call.
C15_StylizeRunsBeforeVideo ==
    \A j \in 1..Len(run.calls) :
        run.calls[j][1] = "video_generate" =>
            \/ run.calls[j][2] \in run.had
            \/ \E i \in 1..(j - 1) : run.calls[i] = <<"stylize", run.calls[j][2]>>

\* A shot without a stylized frame is repaired and then given to the video
\* generator.
C15_Witness ==
    /\ run.node_type = "video_generate"
    /\ 1 \notin run.had
    /\ Len(run.calls) >= 2
    /\ run.calls[1] = <<"stylize", 1>>
    /\ \E j \in 2..Len(run.calls) : run.calls[j] = <<"video_generate", 1>>

\* C16: a status poll taken after the clear step of run_node(stage) has removed
\* the artifacts of the target shots, and before the generator call of a target
\* shot has completed, does not return that shot with the stage SUCCESS unless
\* its artifact file exists (after the clear step any file is one this call
\* wrote, so SUCCESS is then not backed by the artifact of before the call).
C16_PollNeverSeesStaleSuccess ==
    [][last'.op = "poll" =>
          \A s \in run.cleared :
              (\/ run.pc = "save"
               \/ \E i \in 1..Len(run.queue) : run.queue[i] = s)
              => (run'.polled[s][run.node_type] = SUCCESS
                      => Exists(files[s][Kind(run.node_type)]))]_vars

\* C17: when run_node has gone through its stage loop, the shots the stage's
\* generator was invoked for are all the target shots, whichever of them
\* failed, and the call reaches its end.
C17_FailureDoesNotStopTheLoop ==
    last.op = "run_end" =>
        {s \in DOMAIN wf.shots :
            \E j \in 1..Len(run.calls) : run.calls[j] = <<run.node_type, s>>}
        = TargetShots(wf, run.shot_id)

\* The generator failed for shot 1 and was still invoked for shot 2.
C17_Witness ==
    /\ last.op = "run_end"
    /\ run.shot_id = NoShot
    /\ <<run.node_type, 1>> \in run.failed
    /\ \E j \in 1..Len(run.calls) : run.calls[j] = <<run.node_type, 2>>

\* C18: when run_node(stage) has returned, every shot whose generator call for
\* the stage failed during the call has status FAILED for the stage and an
\* error recorded for it, in memory and in the persisted document.
C18_FailureIsReported ==
    last.op = "run_end" =>
        \A s \in DOMAIN wf.shots :
            <<run.node_type, s>> \in run.failed =>
                /\ wf.shots[s][run.node_type] = FAILED
                /\ disk.shots[s][run.node_type] = FAILED
                /\ IF run.node_type = "stylize"
                   THEN wf.shots[s].err_stylize # Null /\ disk.shots[s].err_stylize # Null
                   ELSE wf.shots[s].err_video # Null /\ disk.shots[s].err_video # Null

\* C19: in every state, a shot whose status for a stage is SUCCESS has no
\* error recorded for that stage, in memory and in the persisted document.
C19_SuccessHasNoError ==
    \A doc \in {wf, disk} : \A s \in DOMAIN doc.shots :
        /\ doc.shots[s].stylize = SUCCESS => doc.shots[s].err_stylize = Null
        /\ doc.shots[s].video_generate = SUCCESS => doc.shots[s].err_video = Null

\* C20: a status moves from SUCCESS to NOT_STARTED, in memory or in the
\* persisted document, only by an invalidation edit or by the demotion of a
\* load(); no step of run_node other than its closing load() does it.
C20_OnlyEditsAndLoadDemote ==
    [][(\E s \in DOMAIN wf.shots : \E stage \in {"stylize", "video_generate"} :
            \/ wf.shots[s][stage] = SUCCESS /\ wf'.shots[s][stage] = NOT_STARTED
            \/ disk.shots[s][stage] = SUCCESS /\ disk'.shots[s][stage] = NOT_STARTED)
        => last'.op \in {"set_global_style", "global_subject_swap",
                         "update_shot_params", "enhance_shot_description",
                         "load", "poll", "run_end"}]_vars

\* C21: for every shot and stage, a step of run_node or a load() changes the
\* persisted status to SUCCESS or FAILED only from RUNNING, and to RUNNING only
\* from NOT_STARTED (the dependency repair, followed as one step, is left out).
C21_StatusGoesThroughRunning ==
    [][last'.op # "run_repair" =>
          \A s \in DOMAIN disk.shots : \A stage \in {"stylize", "video_generate"} :
              LET old == disk.shots[s][stage]
                  new == disk'.shots[s][stage]
              IN  /\ (new \in {SUCCESS, FAILED} /\ new # old) => old = RUNNING
                  /\ (new = RUNNING /\ new # old) => old = NOT_STARTED]_vars

\* C22: when run_node('video_generate') with no shot id has returned on a job
\* that had at least one shot and every shot at video_generate NOT_STARTED, and
\* no generator call of the run failed, the video generator was started for
\* every shot (its status went through RUNNING), every shot is SUCCESS with
\* the path videos/<shot_id>.mp4, in memory and persisted, and can_merge holds.
C22_FullVideoRunSucceeds ==
    (/\ last.op = "run_end"
     /\ run.node_type = "video_generate" /\ run.shot_id = NoShot
     /\ run.unstarted /\ run.failed = {})
    => /\ \A s \in DOMAIN wf.shots :
            /\ \E j \in 1..Len(run.calls) : run.calls[j] = <<"video_generate", s>>
            /\ wf.shots[s].video_generate = SUCCESS
            /\ wf.shots[s].video = VideoRel(s)
            /\ disk.shots[s].video_generate = SUCCESS
            /\ disk.shots[s].video = VideoRel(s)
            /\ Exists(files[s].video)
       /\ merge_info.can_merge

\* Such a run has returned on a job of two shots.
C22_Witness ==
    /\ last.op = "run_end"
    /\ run.node_type = "video_generate" /\ run.shot_id = NoShot
    /\ run.unstarted /\ run.failed = {}
    /\ DOMAIN wf.shots = Shots
    /\ Len(run.calls) >= 2

\* C23: the list of videos merge_videos() hands to the muxer is in ascending
\* shot_id order and has exactly one entry for every shot of the job.
C23_MergeListIsEveryShotInOrder ==
    (last.op = "merge_videos" /\ (last.res = "ok" \/ last.list # <<>>)) =>
        /\ \A i, j \in 1..Len(last.list) : i < j => last.list[i] < last.list[j]
        /\ {last.list[i] : i \in 1..Len(last.list)} = DOMAIN wf.shots

C25_LoadWorkflowTerminates ==
    /\ io.r.attempt <= MaxRetries
    /\ Len(io.r.seen) = io.r.attempt
    /\ io.r.pc = "reading" => io.r.attempt < MaxRetries
    /\ io.r.pc = "done" =>
          IF \E i \in 1..Len(io.r.seen) : io.r.seen[i].st = "whole"
          THEN io.r.result = io.r.seen[Len(io.r.seen)] /\ io.r.result.st = "whole"
          ELSE io.r.result = EmptyResult

\* A call returned the empty document after max_retries attempts that found
\* workflow.json empty, malformed or unreadable.
C25_Witness ==
    /\ io.r.pc = "done"
    /\ io.r.attempt = MaxRetries
    /\ io.r.result = EmptyResult
    /\ \A i \in 1..Len(io.r.seen) : io.r.seen[i].st \in {"empty", "partial", "unreadable"}

\* C26: whatever the interleaving of save_workflow calls, two writers
\* included, a read of workflow.json by load_workflow never finds it empty or
\* partially written: it finds the whole text of an earlier or later document.
C26_ReadsAreWhole ==
    \A i \in 1..Len(io.r.seen) : io.r.seen[i].st \notin {"empty", "partial"}

\* C27: the shot_id values of the job initialize_from_file creates are
\* pairwise distinct, whatever storyboard the decomposition step returned.
C27_ShotIdsAreDistinct ==
    last.op = "initialize_from_file" =>
        \A i, j \in DOMAIN disk.shots :
            i # j => disk.shots[i].shot_id # disk.shots[j].shot_id

\* C28: the sequence of shot identifiers of the persisted document never
\* changes, whatever load (one that returned the empty document included),
\* edit, run_node or merge_videos is performed.
C28_ShotIdsNeverChange ==
    [][last'.op \in {"load", "set_global_style", "cmd_set_style", "run_node", "merge_videos"} =>
          /\ DOMAIN disk'.shots = DOMAIN disk.shots
          /\ \A s \in DOMAIN disk.shots : disk'.shots[s].shot_id = disk.shots[s].shot_id]_vars

\* C29: a persisted status is RUNNING only while an execution of that stage
\* for that shot is in flight: the generator call of the run that is followed.
C29_RunningHasAnExecution ==
    \A s \in DOMAIN disk.shots : \A stage \in {"stylize", "video_generate"} :
        disk.shots[s][stage] = RUNNING =>
            run.pc = "gen" /\ run.cur = s /\ run.node_type = stage

\* C30: when an edit arrived during a run_node call and both have finished,
\* the persisted document has the description the edit supplied, and the
\* edited shot is not SUCCESS for the stage by a generator call that was in
\* flight, on the old content, when the edit arrived.
C30_NoLostUpdate ==
    (last.op = "run_end" /\ run.edited # NoEdit) =>
        /\ disk.shots[run.edited.shot].description = run.edited.text
        /\ run.edited.inflight => disk.shots[run.edited.shot][run.node_type] # SUCCESS

\* C31: run_node called with a shot id the job does not have, or with a stage
\* name other than stylize and video_generate, reports an error and changes
\* nothing: not the document in memory (attempts, global_stages, shots), not
\* the persisted document, not the files.
C31_BadRunNodeIsRejected ==
    [][(/\ last'.op = "run_node"
        /\ \/ last'.shot \notin DOMAIN wf.shots \cup {NoShot}
           \/ last'.text \notin {<<"stylize">>, <<"video_generate">>})
       => /\ last'.res # "ok"
          /\ wf' = wf
          /\ disk' = disk
          /\ files' = files]_vars

\* C32: the 'started' response of a run-stage request is returned before the
\* background call of run_node takes its first step, so every poll during the
\* call is a status read issued after the response: such a read does not show
\* a target shot SUCCESS for the stage before this call's generator has been
\* invoked for the shot.
C32_StartedMeansCleared ==
    [][last'.op = "poll" =>
          \A s \in TargetShots(wf, run.shot_id) :
              (\A j \in 1..Len(run.calls) : run.calls[j] # <<run.node_type, s>>)
              => run'.polled[s][run.node_type] # SUCCESS]_vars

\* C33: at every point of a run_node call, the persisted document records a
\* terminal status (SUCCESS or FAILED) for every shot and stage whose
\* generator call has returned: the outcome is saved before the next
\* generator is invoked.
C33_OutcomeIsPersistedPerShot ==
    \A j \in 1..Len(run.calls) :
        (run.pc = "gen" => j < Len(run.calls)) =>
            disk.shots[run.calls[j][2]][run.calls[j][1]] \in {SUCCESS, FAILED}

\* The generator of the second shot is in flight after the call for the first
\* one returned with a failure.
C33_Witness ==
    /\ run.pc = "gen"
    /\ Len(run.calls) >= 2
    /\ run.calls[1][2] # run.calls[2][2]
    /\ run.failed # {}
    /\ disk.shots[run.calls[1][2]][run.calls[1][1]] = FAILED

\* C34: update_shot_params on a shot of the job with no description supplied
\* (absent from the action, or None as the request of /api/shot/update with
\* the field omitted produces it) leaves the description as it was, never
\* None, and still resets both stages.
C34_DescriptionIsNeverNulled ==
    [][(/\ last'.op = "update_shot_params"
        /\ last'.shot \in DOMAIN wf.shots
        /\ last'.text \in {NoDescription, None})
       => /\ wf'.shots[last'.shot].description = wf.shots[last'.shot].description
          /\ wf'.shots[last'.shot].description # None
          /\ wf'.shots[last'.shot].stylize = NOT_STARTED
          /\ wf'.shots[last'.shot].video_generate = NOT_STARTED]_vars

\* C35: for the job initialize_from_file creates, sorting the shots by
\* shot_id as merge_videos does gives the shots in their creation order.
C35_SortIsCreationOrder ==
    last.op = "initialize_from_file" =>
        LET ids == [i \in 1..Len(disk.shots) |-> disk.shots[i].shot_id]
        IN  SortByShotId(ids) = ids

\* C36: run_pipeline with no target shot invokes the generator of a stage
\* only for a shot whose status for that stage is NOT_STARTED or FAILED, and
\* no stylize call follows a video call; a step of the run changes nothing of
\* a shot other than the one whose generator is invoked, and of that shot
\* not the status of the other stage; when run_pipeline returns, every stage
\* of every shot that is NOT_STARTED or FAILED has been invoked.
C36_PipelineRunsOnlyPending ==
    [][(run'.shot_id = NoShot
        /\ last'.op \in {"run_gen_start", "run_gen_end", "pipe_pass", "run_pipeline"})
       => /\ \A s \in DOMAIN disk.shots :
                /\ disk'.shots[s] # disk.shots[s] => s \in {run.cur, run'.cur}
                /\ \A stage \in RunStages :
                      disk'.shots[s][stage] # disk.shots[s][stage]
                          => stage = run.node_type
          /\ last'.op = "run_gen_start"
                => /\ disk.shots[run'.cur][run.node_type] \in {NOT_STARTED, FAILED}
                   /\ run.node_type = "stylize"
                         => \A i \in 1..Len(run.calls) : run.calls[i][1] = "stylize"
          /\ last'.op = "run_pipeline"
                => \A s \in DOMAIN disk.shots, stage \in RunStages :
                      disk.shots[s][stage] \in {NOT_STARTED, FAILED}
                          => \E i \in 1..Len(run.calls) : run.calls[i] = <<stage, s>>
      ]_vars

\* A run_pipeline with no target has returned after it skipped a stage of a
\* shot that was SUCCESS and one that was RUNNING, and invoked the stylize
\* generator of a shot an edit had reset.
C36_Witness ==
    /\ last.op = "run_pipeline"
    /\ run.shot_id = NoShot
    /\ <<"stylize", 2>> \in {run.calls[i] : i \in 1..Len(run.calls)}
    /\ <<"stylize", 1>> \notin {run.calls[i] : i \in 1..Len(run.calls)}
    /\ <<"video_generate", 2>> \in {run.calls[i] : i \in 1..Len(run.calls)}
    /\ disk.shots[1].stylize \in {SUCCESS, RUNNING}

\* C37: a stage run requested for job J with job_id = J leaves in jobs/J a
\* document whose job_id is J, and writes nothing into the other job's
\* directory, whatever job the manager had loaded.
C37_RunWritesOnlyItsJob ==
    [][(last'.op = "run_task" /\ last'.res = "started" /\ last'.text[2] # NoJob)
       => /\ jobs'.stored[last'.text[2]] = last'.text[2]
          /\ last'.text[2] = JobA => jobs'.other = jobs.other
          /\ last'.text[2] = JobB => disk' = disk /\ files' = files
      ]_vars

\* C38: run_node("stylize", shot_id?) leaves, for every shot, the
\* video_generate status, the video asset path and the video file as they
\* were before the call.
C38_StylizeRunKeepsVideo ==
    [][(last'.op = "run_node" /\ last'.text = <<"stylize">>)
       => \A s \in DOMAIN wf.shots :
             /\ wf'.shots[s].video_generate = wf.shots[s].video_generate
             /\ wf'.shots[s].video = wf.shots[s].video
             /\ files'[s].video = files[s].video
      ]_vars

\* C39: once run_node has set global_stages["stylize"] or
\* global_stages["video_gen"] to RUNNING in the manager's document, no later
\* operation changes that indicator: it is RUNNING in every later state.
C39_StageIndicatorStaysRunning ==
    [][\A key \in {"gs_stylize", "gs_video_gen"} :
          wf[key] = RUNNING => wf'[key] = RUNNING]_vars

\* C40: in every state, global_stages["merge"] = SUCCESS implies that the
\* video_generate status of every shot is SUCCESS.
C40_MergedMeansAllSucceeded ==
    wf.gs_merge = SUCCESS =>
        \A s \in DOMAIN wf.shots : wf.shots[s].video_generate = SUCCESS

====
